---- MODULE Spec2Model ----
(***************************************************************************)
(* A model of BhashiniClient (src/bhashini_client.py): construction, which *)
(* fetches and parses the pipeline configuration, and the five public      *)
(* operations.  JSON objects are functions from key strings (a key is      *)
(* present iff it is in the DOMAIN); JSON arrays and Python lists are      *)
(* sequences; the Python dicts the client builds are insertion-ordered and *)
(* are modelled as sequences of [k, v] items.                              *)
(***************************************************************************)
EXTENDS Integers, Sequences, FiniteSets, TLC

VARIABLES
    client,             \* "none" before __init__, "ready" after it returns, "failed" after it raises
    config,             \* self.config
    pipeline_data,      \* self.pipeline_data
    inference_api_key,  \* self.inference_api_key
    configPosts,        \* number of POSTs made to PIPELINE_CONFIG_ENDPOINT
    call,               \* the operation the caller is in, with its arguments; Idle between calls
    sent,               \* the requests that call POSTed to INFERENCE_ENDPOINT, in order
    answer,             \* the answer the endpoint gave to the call's (last) POST
    outcome             \* what the call did: [kind |-> "return", value] or [kind |-> "raise", exc]

vars == <<client, config, pipeline_data, inference_api_key, configPosts, call, sent, answer, outcome>>

-----------------------------------------------------------------------------
(* Bounds of the model. *)

\* at most this many language configs in the whole configuration response
MaxEntries == 2

Langs == {"hi", "gu"}
TargetLangs == {"hi", "gu", "en"}
ServiceIds == {"svc1", "svc2"}
Genders == {"male", "female", "other"}
TaskArgs == {"asr", "translation", "tts", "ocr"}

-----------------------------------------------------------------------------
(* Python values. *)

None == "None"
Unset == [unset |-> TRUE]

Has(d, k) == k \in DOMAIN d
Get(d, k, default) == IF k \in DOMAIN d THEN d[k] ELSE default

Exc(type, msg) == [type |-> type, msg |-> msg]
Return(v) == [kind |-> "return", value |-> v]
Raise(e) == [kind |-> "raise", exc |-> e]
KeyError(k) == Exc("KeyError", <<k>>)
IsExc(x) == DOMAIN x = {"type", "msg"}

(* An insertion-ordered dict: a sequence of items [k, v] with distinct k. *)
DKeys(d) == [i \in 1..Len(d) |-> d[i].k]
DHas(d, k) == \E i \in 1..Len(d) : d[i].k = k
DGet(d, k) == d[CHOOSE i \in 1..Len(d) : d[i].k = k].v
DSet(d, k, v) ==
    IF DHas(d, k)
    THEN [i \in 1..Len(d) |-> IF d[i].k = k THEN [k |-> k, v |-> v] ELSE d[i]]
    ELSE Append(d, [k |-> k, v |-> v])

Range(s) == {s[i] : i \in 1..Len(s)}

(* ', '.join(xs) keeps the items and their order. *)
Join(xs) == <<"join", xs>>

-----------------------------------------------------------------------------
(* The configuration endpoint's answers. *)

\* Hindi configs carry a script code, Gujarati ones leave it out
SrcLanguage(l) ==
    IF l = "hi" THEN [sourceLanguage |-> l, sourceScriptCode |-> "Deva"]
    ELSE [sourceLanguage |-> l]

PairLanguage(s, t) ==
    IF s = "hi"
    THEN [sourceLanguage |-> s, targetLanguage |-> t, sourceScriptCode |-> "Deva"]
    ELSE [sourceLanguage |-> s, targetLanguage |-> t, targetScriptCode |-> "Latn"]

\* the service svc2 declares its voices, svc1 declares none
TtsConfig(l, s) ==
    IF s = "svc2"
    THEN [language |-> SrcLanguage(l), serviceId |-> s, supportedVoices |-> <<"male">>]
    ELSE [language |-> SrcLanguage(l), serviceId |-> s]

LanguageConfigs(task_type) ==
    CASE task_type = "asr" ->
            {[language |-> SrcLanguage(l), serviceId |-> s] : l \in Langs, s \in ServiceIds}
      [] task_type = "tts" ->
            {TtsConfig(l, s) : l \in Langs, s \in ServiceIds}
      [] task_type = "translation" ->
            {[language |-> PairLanguage(p[1], p[2]), serviceId |-> i] :
                    p \in {q \in Langs \X TargetLangs : q[1] # q[2]}, i \in ServiceIds}

\* the lists of exactly n language configs of a task type
RECURSIVE ConfigLists(_, _)
ConfigLists(task_type, n) ==
    IF n = 0 THEN {<<>>}
    ELSE {Append(cs, c) : cs \in ConfigLists(task_type, n - 1), c \in LanguageConfigs(task_type)}

(* The pipeline lists with at most n language configs in all, every pipeline *)
(* non-empty and of another task type than the one before it.                *)
RECURSIVE PipelineLists(_, _)
PipelineLists(n, last) ==
    {<<>>} \cup
    UNION {UNION {{<<[taskType |-> t, config |-> cs]>> \o rest :
                        cs \in ConfigLists(t, k), rest \in PipelineLists(n - k, t)} :
                    t \in {"asr", "translation", "tts"} \ {last}} :
            k \in 1..n}

EndPoint == [inferenceApiKey |-> [name |-> "Authorization", value |-> "key1"],
             callbackUrl |-> "https://callback"]

WithPipelines(ps) == [pipelineInferenceAPIEndPoint |-> EndPoint, pipelineResponseConfig |-> ps]

AsrHi(s) == [language |-> SrcLanguage("hi"), serviceId |-> s]

(* Configurations of other shapes: a task type the client does not know, an *)
(* empty pipeline, two pipelines of one task type.                          *)
OddConfigs ==
    {WithPipelines(<<[taskType |-> "ocr"], [taskType |-> "asr", config |-> <<AsrHi("svc1")>>]>>),
     WithPipelines(<<[taskType |-> "asr", config |-> <<>>],
                     [taskType |-> "tts", config |-> <<TtsConfig("gu", "svc2")>>]>>),
     WithPipelines(<<[taskType |-> "asr", config |-> <<AsrHi("svc2")>>],
                     [taskType |-> "asr", config |-> <<AsrHi("svc1")>>]>>)}

(* Configurations that lack a key the parse reads. *)
BrokenConfigs ==
    {[pipelineResponseConfig |-> <<>>],
     [pipelineInferenceAPIEndPoint |-> [callbackUrl |-> "https://callback"],
      pipelineResponseConfig |-> <<>>],
     [pipelineInferenceAPIEndPoint |-> [inferenceApiKey |-> [name |-> "Authorization"],
                                        callbackUrl |-> "https://callback"],
      pipelineResponseConfig |-> <<>>],
     [pipelineInferenceAPIEndPoint |-> [inferenceApiKey |-> [value |-> "key1"]],
      pipelineResponseConfig |-> <<>>],
     [pipelineInferenceAPIEndPoint |-> EndPoint],
     WithPipelines(<<[config |-> <<>>]>>),
     WithPipelines(<<[taskType |-> "asr"]>>),
     WithPipelines(<<[taskType |-> "asr", config |-> <<[serviceId |-> "svc1"]>>]>>),
     WithPipelines(<<[taskType |-> "tts", config |-> <<[language |-> [sourceScriptCode |-> "Deva"],
                                                        serviceId |-> "svc1"]>>]>>),
     WithPipelines(<<[taskType |-> "asr", config |-> <<AsrHi("svc1"), [language |-> SrcLanguage("hi")]>>]>>),
     WithPipelines(<<[taskType |-> "translation",
                      config |-> <<[language |-> SrcLanguage("hi"), serviceId |-> "svc1"]>>]>>),
     WithPipelines(<<[taskType |-> "translation",
                      config |-> <<[language |-> PairLanguage("hi", "gu")]>>]>>)}

Configs ==
    {WithPipelines(ps) : ps \in PipelineLists(MaxEntries, "none")} \cup OddConfigs \cup BrokenConfigs

(* An HTTP exchange: the transport fails, or a status and a body come back. *)
NetError == [neterr |-> TRUE]
Http(status, body) == [status |-> status, body |-> body]
IsNetError(r) == Has(r, "neterr")

(* A body is its text and what json.loads makes of it. *)
JsonObject(text, obj) == [text |-> text, json |-> "object", value |-> obj]
JsonArray(text, arr) == [text |-> text, json |-> "array", value |-> arr]
NotJson(text) == [text |-> text, json |-> "invalid"]

InferenceResponses ==
    {NetError,
     Http(200, JsonObject("{\"pipelineResponse\":\"output\"}", [pipelineResponse |-> "output"])),
     Http(200, NotJson("")),
     Http(400, JsonObject("{\"detail\":\"bad request\"}", [detail |-> "bad request"])),
     Http(500, JsonObject("{\"message\":\"quota exceeded\"}", [message |-> "quota exceeded"])),
     Http(500, NotJson("Internal Server Error")),
     Http(503, JsonArray("[]", <<>>))}

ConfigResponses ==
    {NetError, Http(401, NotJson("Unauthorized")), Http(200, NotJson("<html>")),
     Http(500, JsonObject("{message}", [message |-> "down"]))}
    \cup {Http(200, JsonObject("{config}", c)) : c \in Configs}

-----------------------------------------------------------------------------
(* requests *)

\* Response.raise_for_status raises HTTPError for a 4xx or 5xx status
IsHTTPError(status) == status >= 400 /\ status < 600

\* Response.json raises JSONDecodeError when the body is not JSON
json_fails(response) == response.body.json = "invalid"
json(response) == response.body.value

-----------------------------------------------------------------------------
\* _get_pipeline_config without its raise_for_status
_get_pipeline_config_unchecked(response) ==
    IF IsNetError(response) THEN Exc("ConnectionError", <<"connection failed">>)
    ELSE IF json_fails(response) THEN Exc("JSONDecodeError", <<response.body.text>>)
    ELSE json(response)

(* _get_pipeline_config: the configuration, or the exception raised. *)
_get_pipeline_config(response) ==
    IF IsNetError(response) THEN Exc("ConnectionError", <<"connection failed">>)
    ELSE IF IsHTTPError(response.status) THEN Exc("HTTPError", <<response.status>>)
    ELSE IF json_fails(response) THEN Exc("JSONDecodeError", <<response.body.text>>)
    ELSE json(response)

\* the list is created for a new key, and the info appended only for a key already there
append_info_to_known(table, key, language_info) ==
    IF DHas(table, key)
    THEN DSet(table, key, Append(DGet(table, key), language_info))
    ELSE DSet(table, key, <<>>)

(* `if key not in table: table[key] = []`, then `table[key].append(language_info)` *)
append_info(table, key, language_info) ==
    LET created == IF DHas(table, key) THEN table ELSE DSet(table, key, <<>>)
    IN  DSet(created, key, Append(DGet(created, key), language_info))

(* The body of the inner loop of _parse_pipeline_config: one language_config *)
(* added to pipeline_data, or the KeyError raised.                            *)
parse_language_config(pd, task_type, language_config) ==
    IF ~Has(language_config, "language") THEN KeyError("language")
    ELSE IF ~Has(language_config.language, "sourceLanguage") THEN KeyError("sourceLanguage")
    ELSE
    LET language == language_config.language
        source_language == language.sourceLanguage
    IN  IF task_type # "translation"
        THEN IF ~Has(language_config, "serviceId") THEN KeyError("serviceId")
             ELSE
             LET info == [serviceId |-> language_config.serviceId,
                          sourceScriptCode |-> Get(language, "sourceScriptCode", None)]
                 language_info ==
                     IF task_type = "tts"
                     THEN info @@ [supportedVoices |-> Get(language_config, "supportedVoices", <<>>)]
                     ELSE info
             IN  [pd EXCEPT ![task_type] = append_info(pd[task_type], source_language, language_info)]
        ELSE IF ~Has(language, "targetLanguage") THEN KeyError("targetLanguage")
             ELSE IF ~Has(language_config, "serviceId") THEN KeyError("serviceId")
             ELSE
             LET target_language == language.targetLanguage
                 table == IF DHas(pd.translation, source_language) THEN pd.translation
                          ELSE DSet(pd.translation, source_language, <<>>)
                 language_info ==
                     [serviceId |-> language_config.serviceId,
                      sourceScriptCode |-> Get(language, "sourceScriptCode", None),
                      targetScriptCode |-> Get(language, "targetScriptCode", None)]
             IN  [pd EXCEPT !.translation =
                     DSet(table, source_language,
                          append_info(DGet(table, source_language), target_language, language_info))]

RECURSIVE parse_configs(_, _, _)
parse_configs(pd, task_type, configs) ==
    IF IsExc(pd) \/ configs = <<>> THEN pd
    ELSE parse_configs(parse_language_config(pd, task_type, Head(configs)), task_type, Tail(configs))

(* The body of the outer loop: one pipeline. *)
parse_pipeline(pd, pipeline) ==
    IF ~Has(pipeline, "taskType") THEN KeyError("taskType")
    ELSE IF pipeline.taskType \in {"asr", "translation", "tts"}
    THEN IF ~Has(pipeline, "config") THEN KeyError("config")
         ELSE parse_configs(pd, pipeline.taskType, pipeline.config)
    ELSE pd

RECURSIVE parse_pipelines(_, _)
parse_pipelines(pd, pipelines) ==
    IF IsExc(pd) \/ pipelines = <<>> THEN pd
    ELSE parse_pipelines(parse_pipeline(pd, Head(pipelines)), Tail(pipelines))

(* _parse_pipeline_config: pipeline_data, or the KeyError raised. *)
_parse_pipeline_config(cfg) ==
    IF ~Has(cfg, "pipelineInferenceAPIEndPoint") THEN KeyError("pipelineInferenceAPIEndPoint")
    ELSE IF ~Has(cfg.pipelineInferenceAPIEndPoint, "inferenceApiKey") THEN KeyError("inferenceApiKey")
    ELSE IF ~Has(cfg.pipelineInferenceAPIEndPoint.inferenceApiKey, "value") THEN KeyError("value")
    ELSE IF ~Has(cfg.pipelineInferenceAPIEndPoint, "callbackUrl") THEN KeyError("callbackUrl")
    ELSE IF ~Has(cfg, "pipelineResponseConfig") THEN KeyError("pipelineResponseConfig")
    ELSE parse_pipelines(
            [asr |-> <<>>, tts |-> <<>>, translation |-> <<>>,
             inferenceApiKey |-> cfg.pipelineInferenceAPIEndPoint.inferenceApiKey.value,
             callbackUrl |-> cfg.pipelineInferenceAPIEndPoint.callbackUrl],
            cfg.pipelineResponseConfig)

-----------------------------------------------------------------------------
(* The public operations.  Each takes self = [pipeline_data,               *)
(* inference_api_key] and yields self as the call leaves it, the requests  *)
(* it POSTed to INFERENCE_ENDPOINT and its outcome.                        *)

INFERENCE_ENDPOINT == "https://dhruva-api.bhashini.gov.in/services/inference/pipeline"
DefaultAsrSamplingRate == 16000
DefaultTtsSamplingRate == 8000

Done(self, requests, result) == [self |-> self, sent |-> requests, outcome |-> result]
Passed == [passed |-> TRUE]

b64encode(content) == <<"base64", content>>

\* _handle_response_errors with the response text as the default of the message
_handle_response_errors_text(response) ==
    IF ~IsHTTPError(response.status) THEN Passed
    ELSE IF json_fails(response)
         THEN Exc("Exception", <<"HTTP error occurred: ", response.body.text>>)
    ELSE IF response.body.json # "object"
         THEN Exc("AttributeError", <<"get">>)
    ELSE Exc("Exception",
             <<"HTTP error occurred: ", Get(json(response), "message", response.body.text)>>)

(* _handle_response_errors: Passed, or the exception raised. *)
_handle_response_errors(response) ==
    IF ~IsHTTPError(response.status) THEN Passed
    ELSE IF json_fails(response)
         THEN Exc("Exception", <<"HTTP error occurred: ", response.body.text>>)
    ELSE IF response.body.json # "object"
         THEN Exc("AttributeError", <<"get">>)
    ELSE Exc("Exception",
             <<"HTTP error occurred: ", Get(json(response), "message", "An error occurred.")>>)

\* the tail with one retry after a non-success status, whose answer is taken as the result
post_inference_retry(self, payload, response) ==
    LET headers == ("Accept" :> "*/*") @@ ("Authorization" :> self.inference_api_key)
                   @@ ("Content-Type" :> "application/json")
        request == [url |-> INFERENCE_ENDPOINT, headers |-> headers, data |-> payload]
    IN  IF IsNetError(response)
        THEN Done(self, <<request>>, Raise(Exc("ConnectionError", <<"connection failed">>)))
        ELSE IF IsHTTPError(response.status)
        THEN Done(self, <<request, request>>, Return([pipelineResponse |-> "output"]))
        ELSE IF json_fails(response)
             THEN Done(self, <<request>>, Raise(Exc("JSONDecodeError", <<response.body.text>>)))
        ELSE Done(self, <<request>>, Return(json(response)))

(* The tail shared by asr, translate and tts: the headers, requests.post, *)
(* _handle_response_errors and response.json().                           *)
post_inference(self, payload, response) ==
    LET headers == ("Accept" :> "*/*") @@ ("Authorization" :> self.inference_api_key)
                   @@ ("Content-Type" :> "application/json")
        request == [url |-> INFERENCE_ENDPOINT, headers |-> headers, data |-> payload]
        error == _handle_response_errors(response)
    IN  IF IsNetError(response)
        THEN Done(self, <<request>>, Raise(Exc("ConnectionError", <<"connection failed">>)))
        ELSE IF IsExc(error) THEN Done(self, <<request>>, Raise(error))
        ELSE IF json_fails(response)
             THEN Done(self, <<request>>, Raise(Exc("JSONDecodeError", <<response.body.text>>)))
        ELSE Done(self, <<request>>, Return(json(response)))

\* list_available_languages that empties the table it lists
list_available_languages_pop(self, task_type) ==
    IF task_type \notin {"asr", "translation", "tts"}
    THEN Done(self, <<>>,
              Raise(Exc("ValueError", <<"Invalid task type. Choose from 'asr', 'translation', or 'tts'.">>)))
    ELSE IF task_type = "translation"
    THEN LET translation == self.pipeline_data.translation
         IN  Done([self EXCEPT !.pipeline_data.translation = <<>>], <<>>,
                  Return([i \in 1..Len(translation) |->
                            [k |-> translation[i].k, v |-> DKeys(translation[i].v)]]))
    ELSE Done([self EXCEPT !.pipeline_data[task_type] = <<>>], <<>>,
              Return(DKeys(self.pipeline_data[task_type])))

\* list_available_languages that gives every source the sources as its targets,
\* and the ASR languages for 'tts'
list_available_languages_mixed(self, task_type) ==
    IF task_type \notin {"asr", "translation", "tts"}
    THEN Done(self, <<>>,
              Raise(Exc("ValueError", <<"Invalid task type. Choose from 'asr', 'translation', or 'tts'.">>)))
    ELSE IF task_type = "translation"
    THEN LET translation == self.pipeline_data.translation
         IN  Done(self, <<>>,
                  Return([i \in 1..Len(translation) |->
                            [k |-> translation[i].k, v |-> DKeys(translation)]]))
    ELSE Done(self, <<>>, Return(DKeys(self.pipeline_data.asr)))

list_available_languages(self, task_type) ==
    IF task_type \notin {"asr", "translation", "tts"}
    THEN Done(self, <<>>,
              Raise(Exc("ValueError", <<"Invalid task type. Choose from 'asr', 'translation', or 'tts'.">>)))
    ELSE IF task_type = "translation"
    THEN LET translation == self.pipeline_data.translation
         IN  Done(self, <<>>,
                  Return([i \in 1..Len(translation) |->
                            [k |-> translation[i].k, v |-> DKeys(translation[i].v)]]))
    ELSE Done(self, <<>>, Return(DKeys(self.pipeline_data[task_type])))

\* entries[-1]
last_entry(entries) == entries[Len(entries)]

(* entries[0]: the first ServiceEntry of a language or pair *)
first_entry(entries) == entries[1]

\* the gender check left out
invalid_gender_never(gender) == FALSE

(* gender not in ['male', 'female'] *)
invalid_gender(gender) == gender \notin {"male", "female"}

\* without the test that supported_voices is non-empty
voice_unsupported_strict(supported_voices, gender) == gender \notin Range(supported_voices)

(* supported_voices and gender not in supported_voices *)
voice_unsupported(supported_voices, gender) ==
    supported_voices # <<>> /\ gender \notin Range(supported_voices)

get_supported_voices(self, source_language) ==
    IF ~DHas(self.pipeline_data.tts, source_language)
    THEN Done(self, <<>>,
              Raise(Exc("ValueError",
                        <<"TTS not supported for language", source_language,
                          Join(list_available_languages(self, "tts").outcome.value)>>)))
    ELSE LET service_info == first_entry(DGet(self.pipeline_data.tts, source_language))
         IN  Done(self, <<>>, Return(Get(service_info, "supportedVoices", <<>>)))

\* asr that POSTs before it looks the language up
asr_posts_first(self, audio_content, source_language, audio_format, sampling_rate, response) ==
    LET known == DHas(self.pipeline_data.asr, source_language)
        service_id == IF known
                      THEN first_entry(DGet(self.pipeline_data.asr, source_language)).serviceId
                      ELSE None
        payload ==
            [pipelineTasks |->
                <<[taskType |-> "asr",
                   config |-> [language |-> [sourceLanguage |-> source_language],
                               serviceId |-> service_id,
                               audioFormat |-> audio_format,
                               samplingRate |-> sampling_rate]]>>,
             inputData |-> [audio |-> <<[audioContent |-> b64encode(audio_content)]>>]]
        posted == post_inference(self, payload, response)
    IN  IF known THEN posted
        ELSE Done(self, posted.sent,
                  Raise(Exc("ValueError",
                            <<"ASR not supported for language", source_language,
                              Join(list_available_languages(self, "asr").outcome.value)>>)))

asr(self, audio_content, source_language, audio_format, sampling_rate, response) ==
    IF ~DHas(self.pipeline_data.asr, source_language)
    THEN Done(self, <<>>,
              Raise(Exc("ValueError",
                        <<"ASR not supported for language", source_language,
                          Join(list_available_languages(self, "asr").outcome.value)>>)))
    ELSE LET service_info == first_entry(DGet(self.pipeline_data.asr, source_language))
             service_id == service_info.serviceId
             payload ==
                [pipelineTasks |->
                    <<[taskType |-> "asr",
                       config |-> [language |-> [sourceLanguage |-> source_language],
                                   serviceId |-> service_id,
                                   audioFormat |-> audio_format,
                                   samplingRate |-> sampling_rate]]>>,
                 inputData |-> [audio |-> <<[audioContent |-> b64encode(audio_content)]>>]]
         IN  post_inference(self, payload, response)

translate(self, text, source_language, target_language, response) ==
    IF ~DHas(self.pipeline_data.translation, source_language)
    THEN Done(self, <<>>,
              Raise(Exc("ValueError",
                        <<"Translation not supported from language", source_language,
                          Join(DKeys(list_available_languages(self, "translation").outcome.value))>>)))
    ELSE IF ~DHas(DGet(self.pipeline_data.translation, source_language), target_language)
    THEN Done(self, <<>>,
              Raise(Exc("ValueError",
                        <<"Translation pair not supported", source_language, target_language,
                          Join(DKeys(DGet(self.pipeline_data.translation, source_language)))>>)))
    ELSE LET service_info ==
                first_entry(DGet(DGet(self.pipeline_data.translation, source_language), target_language))
             service_id == service_info.serviceId
             payload ==
                [pipelineTasks |->
                    <<[taskType |-> "translation",
                       config |-> [language |-> [sourceLanguage |-> source_language,
                                                 targetLanguage |-> target_language],
                                   serviceId |-> service_id]]>>,
                 inputData |-> [input |-> <<[source |-> text]>>]]
         IN  post_inference(self, payload, response)

tts(self, text, source_language, gender, sampling_rate, response) ==
    IF ~DHas(self.pipeline_data.tts, source_language)
    THEN Done(self, <<>>,
              Raise(Exc("ValueError",
                        <<"TTS not supported for language", source_language,
                          Join(list_available_languages(self, "tts").outcome.value)>>)))
    ELSE LET service_info == first_entry(DGet(self.pipeline_data.tts, source_language))
             service_id == service_info.serviceId
             supported_voices == Get(service_info, "supportedVoices", <<>>)
             payload ==
                [pipelineTasks |->
                    <<[taskType |-> "tts",
                       config |-> [language |-> [sourceLanguage |-> source_language],
                                   serviceId |-> service_id,
                                   gender |-> gender,
                                   samplingRate |-> sampling_rate]]>>,
                 inputData |-> [input |-> <<[source |-> text]>>]]
         IN  IF invalid_gender(gender)
             THEN Done(self, <<>>, Raise(Exc("ValueError", <<"Voice must be 'male' or 'female'.">>)))
             ELSE IF voice_unsupported(supported_voices, gender)
             THEN Done(self, <<>>,
                       Raise(Exc("ValueError",
                                 <<"Gender not supported for language", gender, source_language,
                                   Join(supported_voices)>>)))
             ELSE post_inference(self, payload, response)

-----------------------------------------------------------------------------
Idle == [op |-> "none"]

Init ==
    /\ client = "none"
    /\ config = Unset
    /\ pipeline_data = Unset
    /\ inference_api_key = Unset
    /\ configPosts = 0
    /\ call = Idle
    /\ sent = <<>>
    /\ answer = Unset
    /\ outcome = Unset

(* __init__: one POST to the configuration endpoint, then the parse.  An *)
(* exception leaves the attributes assigned before it and no client.     *)
Construct ==
    /\ client = "none"
    /\ call = Idle
    /\ \E response \in ConfigResponses :
        LET cfg == _get_pipeline_config(response)
            pd == IF IsExc(cfg) THEN Unset ELSE _parse_pipeline_config(cfg)
        IN  /\ configPosts' = configPosts + 1
            /\ call' = [op |-> "__init__"]
            /\ answer' = response
            /\ sent' = <<>>
            /\ IF IsExc(cfg)
               THEN /\ client' = "failed"
                    /\ outcome' = Raise(cfg)
                    /\ UNCHANGED <<config, pipeline_data, inference_api_key>>
               ELSE IF IsExc(pd)
               THEN /\ client' = "failed"
                    /\ outcome' = Raise(pd)
                    /\ config' = cfg
                    /\ UNCHANGED <<pipeline_data, inference_api_key>>
               ELSE /\ client' = "ready"
                    /\ outcome' = Return(None)
                    /\ config' = cfg
                    /\ pipeline_data' = pd
                    /\ inference_api_key' = pd.inferenceApiKey

Self == [pipeline_data |-> pipeline_data, inference_api_key |-> inference_api_key]

(* What a call on the constructed client does to the state: r is what the *)
(* operation yields, response the answer the endpoint holds ready.        *)
Finish(op, r, response) ==
    /\ call' = op
    /\ pipeline_data' = r.self.pipeline_data
    /\ inference_api_key' = r.self.inference_api_key
    /\ sent' = r.sent
    /\ answer' = IF r.sent = <<>> THEN Unset ELSE response
    /\ outcome' = r.outcome
    /\ UNCHANGED <<client, config, configPosts>>

ListAvailableLanguages(task_type) ==
    /\ client = "ready"
    /\ call = Idle
    /\ Finish([op |-> "list_available_languages", task_type |-> task_type],
              list_available_languages(Self, task_type), Unset)

GetSupportedVoices(source_language) ==
    /\ client = "ready"
    /\ call = Idle
    /\ Finish([op |-> "get_supported_voices", source_language |-> source_language],
              get_supported_voices(Self, source_language), Unset)

Asr(source_language, response) ==
    /\ client = "ready"
    /\ call = Idle
    /\ Finish([op |-> "asr", source_language |-> source_language],
              asr(Self, "RIFF", source_language, "wav", DefaultAsrSamplingRate, response),
              response)

Translate(source_language, target_language, response) ==
    /\ client = "ready"
    /\ call = Idle
    /\ Finish([op |-> "translate", source_language |-> source_language,
               target_language |-> target_language],
              translate(Self, "text", source_language, target_language, response),
              response)

Tts(source_language, gender, response) ==
    /\ client = "ready"
    /\ call = Idle
    /\ Finish([op |-> "tts", source_language |-> source_language, gender |-> gender],
              tts(Self, "text", source_language, gender, DefaultTtsSamplingRate, response),
              response)

(* The call is over: the caller has its value or its exception and goes on. *)
CallerContinues ==
    /\ call # Idle
    /\ call' = Idle
    /\ sent' = <<>>
    /\ answer' = Unset
    /\ outcome' = Unset
    /\ UNCHANGED <<client, config, pipeline_data, inference_api_key, configPosts>>

Next ==
    \/ Construct
    \/ \E task_type \in TaskArgs : ListAvailableLanguages(task_type)
    \/ \E l \in Langs : GetSupportedVoices(l)
    \/ \E l \in Langs, response \in InferenceResponses : Asr(l, response)
    \/ \E s \in Langs, t \in TargetLangs, response \in InferenceResponses : Translate(s, t, response)
    \/ \E l \in Langs, g \in Genders, response \in InferenceResponses : Tts(l, g, response)
    \/ CallerContinues

Spec == Init /\ [][Next]_vars

-----------------------------------------------------------------------------
(* The error taxonomy of the specification, read off the exception raised. *)

ErrKind(e) ==
    CASE e.type = "ValueError" /\ e.msg[1] \in {"ASR not supported for language",
                                                "TTS not supported for language",
                                                "Translation not supported from language"}
            -> "UnsupportedLanguage"
      [] e.type = "ValueError" /\ e.msg[1] = "Translation pair not supported"
            -> "UnsupportedLanguagePair"
      [] e.type = "ValueError" /\ e.msg[1] = "Gender not supported for language"
            -> "UnsupportedVoice"
      [] e.type = "ValueError" /\ e.msg[1] \in {"Voice must be 'male' or 'female'.",
                                                "Invalid task type. Choose from 'asr', 'translation', or 'tts'."}
            -> "InvalidArgument"
      [] e.type = "Exception" -> "InferenceError"
      [] e.type \in {"ConnectionError", "HTTPError"} -> "ConfigurationError"
      [] e.type = "KeyError" -> "ParseError"
      [] OTHER -> e.type

InferenceOps == {"asr", "translate", "tts"}
Raised == outcome # Unset /\ outcome.kind = "raise"
Returned == outcome # Unset /\ outcome.kind = "return"
RaisedKind(kind) == Raised /\ ErrKind(outcome.exc) = kind
NonSuccessAnswer == sent # <<>> /\ ~IsNetError(answer) /\ IsHTTPError(answer.status)

(* The language configs of a task type, in configuration-response order. *)
RECURSIVE ConfigsInOrder(_, _)
ConfigsInOrder(pipelines, task_type) ==
    IF pipelines = <<>> THEN <<>>
    ELSE (IF Head(pipelines).taskType = task_type THEN Head(pipelines).config ELSE <<>>)
         \o ConfigsInOrder(Tail(pipelines), task_type)

TaskOf(op) == CASE op = "asr" -> "asr" [] op = "tts" -> "tts" [] op = "translate" -> "translation"

\* the language config is one for the language (pair) of the call
ForCall(language_config) ==
    /\ language_config.language.sourceLanguage = call.source_language
    /\ call.op = "translate" => language_config.language.targetLanguage = call.target_language

CallConfigs == ConfigsInOrder(config.pipelineResponseConfig, TaskOf(call.op))

FirstForCall ==
    CallConfigs[CHOOSE i \in 1..Len(CallConfigs) :
                    /\ ForCall(CallConfigs[i])
                    /\ \A j \in 1..(i - 1) : ~ForCall(CallConfigs[j])]

\* the first ServiceEntry of the TTS table for the language of the call
TtsEntry == DGet(pipeline_data.tts, call.source_language)[1]
TtsVoices == Range(TtsEntry.supportedVoices)

-----------------------------------------------------------------------------
(* C1: a call to asr, translate or tts that is rejected for an unsupported *)
(* language, language pair or voice has sent no request to the inference   *)
(* endpoint.                                                               *)
C1_RejectedBeforeNetwork ==
    (call.op \in InferenceOps
        /\ Raised
        /\ ErrKind(outcome.exc) \in {"UnsupportedLanguage", "UnsupportedLanguagePair", "UnsupportedVoice"})
    => sent = <<>>

C1_Witness ==
    /\ call.op = "translate"
    /\ RaisedKind("UnsupportedLanguagePair")
    /\ DHas(pipeline_data.translation, call.source_language)
    /\ sent = <<>>

(* C2: once constructed, pipeline_data and the inference key stay what the *)
(* parse of the configuration made them, whatever is called and however it *)
(* ends.                                                                   *)
C2_PipelineDataImmutable ==
    client = "ready" =>
        /\ pipeline_data = _parse_pipeline_config(config)
        /\ inference_api_key = config.pipelineInferenceAPIEndPoint.inferenceApiKey.value

C2_Witness ==
    /\ client = "ready"
    /\ call.op = "tts"
    /\ Raised
    /\ pipeline_data.tts # <<>>
    /\ pipeline_data.translation # <<>>

(* C3: every request sent carries the serviceId of the first language      *)
(* config, in configuration-response order, for the language (pair) of the *)
(* call.                                                                   *)
C3_FirstServiceId ==
    call.op \in InferenceOps =>
        \A k \in 1..Len(sent) :
            sent[k].data.pipelineTasks[1].config.serviceId = FirstForCall.serviceId

\* a request went out although a later config for the language names another service
C3_Witness ==
    /\ call.op \in InferenceOps
    /\ sent # <<>>
    /\ \E i \in 1..Len(CallConfigs) :
            /\ ForCall(CallConfigs[i])
            /\ CallConfigs[i].serviceId # FirstForCall.serviceId

(* C4, as stated: on a non-success status the call raises the inference    *)
(* error carrying the body's message field when it has one and the raw     *)
(* response text in every other case.                                      *)
C4_MessageElseRawText ==
    (call.op \in InferenceOps /\ NonSuccessAnswer) =>
        /\ RaisedKind("InferenceError")
        /\ outcome.exc.msg[2] =
              IF answer.body.json = "object" /\ Has(answer.body.value, "message")
              THEN answer.body.value.message
              ELSE answer.body.text

(* C4, amended: the error carries the message field of a JSON object body  *)
(* that has one, the fixed text 'An error occurred.' for a JSON object     *)
(* body without one, and the raw response text for a body that is not      *)
(* JSON; a JSON body that is no object ends the call with AttributeError.  *)
C4_MessageElseDefault ==
    (call.op \in InferenceOps /\ NonSuccessAnswer) =>
        /\ Raised
        /\ CASE answer.body.json = "object" ->
                    /\ RaisedKind("InferenceError")
                    /\ outcome.exc.msg[2] =
                          IF Has(answer.body.value, "message")
                          THEN answer.body.value.message
                          ELSE "An error occurred."
             [] answer.body.json = "invalid" ->
                    /\ RaisedKind("InferenceError")
                    /\ outcome.exc.msg[2] = answer.body.text
             [] OTHER -> outcome.exc.type = "AttributeError"

C4_Witness ==
    /\ call.op = "asr"
    /\ NonSuccessAnswer
    /\ answer.body.json = "object"
    /\ ~Has(answer.body.value, "message")
    /\ RaisedKind("InferenceError")

(* C5, as stated: for a language of the TTS table, a gender outside a      *)
(* non-empty supportedVoices of the first entry is rejected with           *)
(* UnsupportedVoice and nothing is sent; with empty supportedVoices any    *)
(* gender is accepted.                                                     *)
C5_AnyGender ==
    (call.op = "tts" /\ DHas(pipeline_data.tts, call.source_language)) =>
        IF TtsVoices # {}
        THEN call.gender \notin TtsVoices => (RaisedKind("UnsupportedVoice") /\ sent = <<>>)
        ELSE Len(sent) = 1

(* C5, amended: the same for a gender in {male, female}.                   *)
C5_ValidGender ==
    (call.op = "tts" /\ DHas(pipeline_data.tts, call.source_language)
        /\ call.gender \in {"male", "female"}) =>
        IF TtsVoices # {}
        THEN call.gender \notin TtsVoices => (RaisedKind("UnsupportedVoice") /\ sent = <<>>)
        ELSE Len(sent) = 1

C5_Witness ==
    /\ call.op = "tts"
    /\ call.gender = "female"
    /\ DHas(pipeline_data.tts, call.source_language)
    /\ TtsVoices = {"male"}
    /\ RaisedKind("UnsupportedVoice")

(* C6, as stated: tts with a gender outside {male, female} fails with      *)
(* InvalidArgument and sends nothing, whatever the language and the tables. *)
C6_AlwaysInvalidArgument ==
    (call.op = "tts" /\ call.gender \notin {"male", "female"}) =>
        (RaisedKind("InvalidArgument") /\ sent = <<>>)

(* C6, amended: such a call fails and sends nothing, whatever the tables:  *)
(* with InvalidArgument when the language is in the TTS table, and with    *)
(* UnsupportedLanguage, the earlier check, when it is not.                 *)
C6_RejectedInvalidGender ==
    (call.op = "tts" /\ call.gender \notin {"male", "female"}) =>
        /\ sent = <<>>
        /\ IF DHas(pipeline_data.tts, call.source_language)
           THEN RaisedKind("InvalidArgument")
           ELSE RaisedKind("UnsupportedLanguage")

C6_Witness ==
    /\ call.op = "tts"
    /\ call.gender = "other"
    /\ DHas(pipeline_data.tts, call.source_language)
    /\ TtsVoices = {}
    /\ RaisedKind("InvalidArgument")

(* C7: a call sends at most one request, and a non-success answer to it    *)
(* ends the call with an exception: no second request, no value.           *)
C7_FailureTerminal ==
    call.op \in InferenceOps =>
        /\ Len(sent) <= 1
        /\ NonSuccessAnswer => (Raised /\ ~Returned)

C7_Witness ==
    /\ call.op = "translate"
    /\ Len(sent) = 1
    /\ NonSuccessAnswer
    /\ Raised

(* Whether a configuration has every key the parse reads. *)
HasExpectedKeys(cfg) ==
    /\ Has(cfg, "pipelineInferenceAPIEndPoint")
    /\ Has(cfg.pipelineInferenceAPIEndPoint, "inferenceApiKey")
    /\ Has(cfg.pipelineInferenceAPIEndPoint.inferenceApiKey, "value")
    /\ Has(cfg.pipelineInferenceAPIEndPoint, "callbackUrl")
    /\ Has(cfg, "pipelineResponseConfig")
    /\ \A i \in 1..Len(cfg.pipelineResponseConfig) :
        LET pipeline == cfg.pipelineResponseConfig[i]
        IN  /\ Has(pipeline, "taskType")
            /\ pipeline.taskType \in {"asr", "translation", "tts"} =>
                /\ Has(pipeline, "config")
                /\ \A j \in 1..Len(pipeline.config) :
                    LET c == pipeline.config[j]
                    IN  /\ Has(c, "language")
                        /\ Has(c.language, "sourceLanguage")
                        /\ Has(c, "serviceId")
                        /\ pipeline.taskType = "translation" => Has(c.language, "targetLanguage")

(* C8: construction makes one POST to the configuration endpoint; a failed *)
(* exchange ends it with ConfigurationError, a configuration lacking an    *)
(* expected key with ParseError; after either there is no client and no    *)
(* request to the inference endpoint.                                      *)
C8_ConstructionFails ==
    /\ client # "none" => configPosts = 1
    /\ call.op = "__init__" =>
        /\ (IsNetError(answer) \/ IsHTTPError(answer.status)) =>
                (client = "failed" /\ RaisedKind("ConfigurationError"))
        /\ (~IsNetError(answer) /\ ~IsHTTPError(answer.status) /\ ~json_fails(answer)
                /\ ~HasExpectedKeys(json(answer))) =>
                (client = "failed" /\ RaisedKind("ParseError"))
    /\ client = "failed" =>
        /\ pipeline_data = Unset
        /\ sent = <<>>
        /\ call.op \in {"none", "__init__"}

C8_Witness ==
    /\ call.op = "__init__"
    /\ ~IsNetError(answer)
    /\ ~IsHTTPError(answer.status)
    /\ RaisedKind("ParseError")
    /\ outcome.exc.msg = <<"targetLanguage">>

(* C9: list_available_languages makes no network call and returns exactly  *)
(* the languages of the configuration: for 'translation' the sources with  *)
(* a translation config, each with exactly its targets; for 'asr' and      *)
(* 'tts' the sources with a config of that task; for any other task type   *)
(* it raises InvalidArgument.                                              *)
SourcesIn(configs) == {configs[i].language.sourceLanguage : i \in 1..Len(configs)}
TargetsIn(configs, source) ==
    {configs[i].language.targetLanguage :
        i \in {j \in 1..Len(configs) : configs[j].language.sourceLanguage = source}}
NoRepeats(s) == \A i, j \in 1..Len(s) : s[i] = s[j] => i = j

C9_ListsConfiguredLanguages ==
    call.op = "list_available_languages" =>
        /\ sent = <<>>
        /\ configPosts = 1
        /\ LET configs == ConfigsInOrder(config.pipelineResponseConfig, call.task_type)
           IN  CASE call.task_type = "translation" ->
                        /\ Returned
                        /\ NoRepeats(DKeys(outcome.value))
                        /\ Range(DKeys(outcome.value)) = SourcesIn(configs)
                        /\ \A i \in 1..Len(outcome.value) :
                            /\ NoRepeats(outcome.value[i].v)
                            /\ Range(outcome.value[i].v) = TargetsIn(configs, outcome.value[i].k)
                 [] call.task_type \in {"asr", "tts"} ->
                        /\ Returned
                        /\ NoRepeats(outcome.value)
                        /\ Range(outcome.value) = SourcesIn(configs)
                 [] OTHER -> RaisedKind("InvalidArgument")

C9_Witness ==
    /\ call.op = "list_available_languages"
    /\ call.task_type = "translation"
    /\ Returned
    /\ \E i \in 1..Len(outcome.value) : Len(outcome.value[i].v) = 2

(* C10: in the tables of a parsed configuration every language and every   *)
(* source/target pair has at least one ServiceEntry, and every translation *)
(* source has at least one target.                                         *)
C10_TablesNonEmpty ==
    client = "ready" =>
        /\ \A i \in 1..Len(pipeline_data.asr) : pipeline_data.asr[i].v # <<>>
        /\ \A i \in 1..Len(pipeline_data.tts) : pipeline_data.tts[i].v # <<>>
        /\ \A i \in 1..Len(pipeline_data.translation) :
            /\ pipeline_data.translation[i].v # <<>>
            /\ \A j \in 1..Len(pipeline_data.translation[i].v) :
                    pipeline_data.translation[i].v[j].v # <<>>

C10_Witness ==
    /\ client = "ready"
    /\ call.op = "get_supported_voices"
    /\ Returned
    /\ pipeline_data.translation # <<>>
====
